---- MODULE Spec2Model ----
(***************************************************************************)
(* The numerical integration tools of mcp-calc-tools.                      *)
(*                                                                         *)
(* Three families of operations are modelled:                              *)
(*   - the async handlers of CalcToolsServer (src/src/server.py),          *)
(*   - the string-returning reducers of core/calculus.py,                  *)
(*   - the FastMCP tools definite_integral (server/server.py) and          *)
(*     numerical_integration_methods (server/advanced_calculus.py).        *)
(*                                                                         *)
(* Numbers.  A float is modelled by an exact rational [n, d] in lowest     *)
(* terms with d > 0.  The non-finite values a float or a sympy number can  *)
(* take have d = 0: nan, +inf, -inf and sympy's zoo (complex infinity).    *)
(* Rounding is not modelled: every sum is the exact one.                   *)
(***************************************************************************)
EXTENDS Integers, Sequences, FiniteSets, TLC

VARIABLES req, ret, caught, divs, rng, drawn, calls,
          shutdown_requested, pc, signals, raised, run_outcome, exit

vars == <<req, ret, caught, divs, rng, drawn, calls,
          shutdown_requested, pc, signals, raised, run_outcome, exit>>

\* the state of the tool calls, and the state of the process that serves them
calc == <<req, ret, caught, divs, rng, drawn, calls>>
cli == <<shutdown_requested, pc, signals, raised, run_outcome, exit>>

-----------------------------------------------------------------------------
(* Bounds of the model. *)

\* subdivision counts run over -MaxNeg .. MaxN
MaxN == 3
MaxNeg == 2
\* interval end points run over -MaxCoord .. MaxCoord
MaxCoord == 1
\* time steps of the Ito handler run over -MaxNeg .. MaxSteps
MaxSteps == 2
\* the states of numpy's process-wide generator that are told apart
GeneratorStates == 2
\* the signals delivered to one run of the process
MaxSignals == 5

-----------------------------------------------------------------------------
(* Exact arithmetic on the extended rationals. *)

Abs(i) == IF i < 0 THEN 0 - i ELSE i

RECURSIVE GCD(_, _)
GCD(a, b) == IF b = 0 THEN a ELSE GCD(b, a % b)

\* the rational n/d (d # 0) in lowest terms with a positive denominator
R(n, d) ==
    LET g == GCD(Abs(n), Abs(d))
        s == IF d < 0 THEN 0 - 1 ELSE 1
    IN  [n |-> s * (n \div g), d |-> s * (d \div g)]

Num(i) == [n |-> i, d |-> 1]
Zero == Num(0)
NaN == [n |-> 0, d |-> 0]
Inf == [n |-> 1, d |-> 0]
NInf == [n |-> 0 - 1, d |-> 0]
Zoo == [n |-> 2, d |-> 0]

IsFinite(v) == v.d # 0
IsNaN(v) == v = NaN
Sign(v) == IF v.n > 0 THEN 1 ELSE IF v.n < 0 THEN 0 - 1 ELSE 0

Neg(a) == IF a.d = 0 /\ a # Inf /\ a # NInf THEN a ELSE [n |-> 0 - a.n, d |-> a.d]

Add(a, b) ==
    IF IsNaN(a) \/ IsNaN(b) THEN NaN
    ELSE IF ~IsFinite(a) /\ ~IsFinite(b)
         THEN IF a = b /\ a # Zoo THEN a ELSE NaN
    ELSE IF ~IsFinite(a) THEN a
    ELSE IF ~IsFinite(b) THEN b
    ELSE LET g == GCD(a.d, b.d)
         IN  R(a.n * (b.d \div g) + b.n * (a.d \div g), (a.d \div g) * b.d)

Sub(a, b) == Add(a, Neg(b))

Mul(a, b) ==
    IF IsNaN(a) \/ IsNaN(b) THEN NaN
    ELSE IF ~IsFinite(a) \/ ~IsFinite(b)
         THEN IF a.n = 0 \/ b.n = 0 THEN NaN
              ELSE IF a = Zoo \/ b = Zoo THEN Zoo
              ELSE IF Sign(a) * Sign(b) > 0 THEN Inf ELSE NInf
    ELSE LET g1 == GCD(Abs(a.n), b.d)
             g2 == GCD(Abs(b.n), a.d)
         IN  [n |-> (a.n \div g1) * (b.n \div g2),
              d |-> (a.d \div g2) * (b.d \div g1)]

\* a / b for finite a and finite b # 0
Div(a, b) == Mul(a, R(b.d, b.n))

\* a <= b as floats compare: every comparison with nan is false
Le(a, b) ==
    IF IsNaN(a) \/ IsNaN(b) THEN FALSE
    ELSE IF a = b THEN TRUE
    ELSE IF a = NInf \/ b = Inf THEN TRUE
    ELSE IF a = Inf \/ b = NInf THEN FALSE
    ELSE LET g == GCD(a.d, b.d)
         IN  a.n * (b.d \div g) <= b.n * (a.d \div g)

Lt(a, b) == Le(a, b) /\ a # b

-----------------------------------------------------------------------------
(* numpy arrays are sequences of numbers; a Python scalar is a number.     *)
(* A value of either shape is carried as [scalar |-> BOOLEAN, v, a].       *)

Arr(s) == [scalar |-> FALSE, v |-> Zero, a |-> s]
Sca(x) == [scalar |-> TRUE, v |-> x, a |-> <<>>]

\* a slip: the step of np.linspace(..., endpoint=False), (stop - start) / num
linspace_open(start, stop, num) ==
    [i \in 1..num |-> Add(start, Mul(Num(i - 1), Div(Sub(stop, start), Num(num))))]

\* np.linspace(start, stop, num) for num >= 0 (num < 0 raises ValueError)
linspace(start, stop, num) ==
    IF num = 1 THEN <<start>>
    ELSE LET step == Div(Sub(stop, start), Num(num - 1))
         IN  [i \in 1..num |-> Add(start, Mul(Num(i - 1), step))]

\* x[:-1] and x[1:]
Init1(s) == IF Len(s) = 0 THEN s ELSE SubSeq(s, 1, Len(s) - 1)
Tail1(s) == IF Len(s) = 0 THEN s ELSE SubSeq(s, 2, Len(s))

\* the sum of s[lo..hi], by halves as numpy's pairwise summation
RECURSIVE SumRange(_, _, _)
SumRange(s, lo, hi) ==
    IF lo > hi THEN Zero
    ELSE IF lo = hi THEN s[lo]
    ELSE LET mid == (lo + hi) \div 2
         IN  Add(SumRange(s, lo, mid), SumRange(s, mid + 1, hi))

\* np.sum of an array or of a scalar
np_sum(y) == IF y.scalar THEN y.v ELSE SumRange(y.a, 1, Len(y.a))

\* np.sum(y * c) with broadcasting.  The exact sum of the products is the
\* product of the exact sum, also on inf and nan; the factor is applied once,
\* after the sum, which keeps the intermediate fractions small.
sum_times(y, c) == Mul(np_sum(y), c)

\* y * c for an array y
np_scale(y, c) == [i \in 1..Len(y) |-> Mul(y[i], c)]

\* np.diff
np_diff(s) == [i \in 1..(Len(s) - 1) |-> Sub(s[i + 1], s[i])]

-----------------------------------------------------------------------------
(* The expression evaluator.                                               *)
(* Expression strings are drawn from Exprs; "x +" is a malformed one.      *)

Exprs == {"x**2", "x", "-x", "1", "1/x", "x +"}

\* the expressions given to the handlers with a fixed 1000-point mesh: the
\* polynomial ones, whose exact sums over 1000 points stay within 32 bits
MeshExprs == Exprs \ {"1/x"}

WellFormed(function) == function # "x +"
IsConstant(function) == function = "1"

\* the value of the expression at one float, as numpy computes it:
\* 1/0.0 is inf (a RuntimeWarning, no exception)
np_eval(function, x) ==
    CASE function = "x**2" -> Mul(x, x)
      [] function = "x"    -> x
      [] function = "-x"   -> Neg(x)
      [] function = "1"    -> Num(1)
      [] function = "1/x"  -> IF ~IsFinite(x) THEN NaN
                              ELSE IF x.n = 0 THEN Inf
                              ELSE R(x.d, x.n)

\* sp.lambdify(x, sp.sympify(function), 'numpy') applied to an array:
\* a constant expression returns a scalar, whatever the argument's shape
lambdify(function, xs) ==
    IF IsConstant(function) THEN Sca(Num(1))
    ELSE Arr([i \in 1..Len(xs) |-> np_eval(function, xs[i])])

-----------------------------------------------------------------------------
(* Results.  A handler's return is [kind, d] with d the returned map; the  *)
(* exception it caught on the way, if any, is named beside it.             *)

NoExc == "none"

ErrorDict(msg) == [error |-> msg]

Outcome(value, exc, divisors) == [value |-> value, exc |-> exc, divs |-> divisors]

\* the message str(e) of the exceptions the handlers catch
Message(exc) ==
    CASE exc = "SympifyError"      -> "could not parse"
      [] exc = "ZeroDivisionError" -> "division by zero"
      [] exc = "ValueError"        -> "Number of samples must be non-negative"
      [] exc = "TypeError"         -> "object is not subscriptable"
      [] exc = "IndexError"        -> "list assignment index out of range"

\* except Exception as e: return {"error": str(e)}
Caught(exc, divisors) == Outcome(ErrorDict(Message(exc)), exc, divisors)

-----------------------------------------------------------------------------
(* CalcToolsServer._handle_riemann *)

\* n = 1000
RiemannPoints == 1000

\* a slip: the left rule, sum(diff(x) * y[:-1])
left_rule(y, x) ==
    LET d == np_diff(x)
    IN  SumRange([i \in 1..Len(d) |-> Mul(d[i], y[i])], 1, Len(d))

\* scipy.integrate.trapezoid(y, x): sum(diff(x) * (y[1:] + y[:-1]) / 2)
trapezoid(y, x) ==
    LET d == np_diff(x)
    IN  SumRange([i \in 1..Len(d) |->
                    Mul(Mul(d[i], Add(y[i + 1], y[i])), R(1, 2))], 1, Len(d))

Methods == {"left", "right", "midpoint", "trapezoid", "simpson"}

handle_riemann(function, start, end, method) ==
    IF ~WellFormed(function) THEN Caught("SympifyError", <<>>)
    ELSE
    LET n == RiemannPoints
        x == linspace(start, end, n)
        dx == Div(Sub(end, start), Num(n - 1))
        x_mid == [i \in 1..(n - 1) |-> Mul(Add(x[i], x[i + 1]), R(1, 2))]
        ok(result) == Outcome([result |-> result, method |-> method,
                               interval |-> <<start, end>>], NoExc, <<>>)
    IN  IF method = "left"
            THEN ok(sum_times(lambdify(function, Init1(x)), dx))
        ELSE IF method = "right"
            THEN ok(sum_times(lambdify(function, Tail1(x)), dx))
        ELSE IF method = "midpoint"
            THEN ok(sum_times(lambdify(function, x_mid), dx))
        ELSE LET y == lambdify(function, x)
             IN  IF y.scalar THEN Caught("IndexError", <<>>)
                 ELSE ok(trapezoid(y.a, x))

-----------------------------------------------------------------------------
(* CalcToolsServer._handle_darboux *)

\* np.maximum and np.minimum of two floats: nan if either is nan
np_maximum(a, b) == IF IsNaN(a) \/ IsNaN(b) THEN NaN ELSE IF Le(a, b) THEN b ELSE a
np_minimum(a, b) == IF IsNaN(a) \/ IsNaN(b) THEN NaN ELSE IF Le(a, b) THEN a ELSE b

\* np.maximum.reduce([y[:-1], y[1:]]) and np.minimum.reduce([y[:-1], y[1:]])
minimum_reduce(y) == [i \in 1..(Len(y) - 1) |-> np_minimum(Init1(y)[i], Tail1(y)[i])]

\* a slip in the upper sum: the left end point's sample instead of the larger
maximum_reduce_left(y) == Init1(y)

maximum_reduce(y) == [i \in 1..(Len(y) - 1) |-> np_maximum(Init1(y)[i], Tail1(y)[i])]

\* (upper_sum + lower_sum) / 2 and (upper_sum - lower_sum) / 2
integral_value_of(upper_sum, lower_sum) == Mul(Add(upper_sum, lower_sum), R(1, 2))
error_bound_of(upper_sum, lower_sum) == Mul(Sub(upper_sum, lower_sum), R(1, 2))

handle_darboux(function, start, end, partitions) ==
    IF ~WellFormed(function) THEN Caught("SympifyError", <<>>)
    ELSE IF partitions + 1 < 0 THEN Caught("ValueError", <<>>)
    ELSE IF partitions = 0 THEN Caught("ZeroDivisionError", <<partitions>>)
    ELSE
    LET x == linspace(start, end, partitions + 1)
        dx == Div(Sub(end, start), Num(partitions))
        y == lambdify(function, x)
    IN  IF y.scalar THEN Caught("TypeError", <<partitions>>)
        ELSE LET upper_sum == np_sum(Arr(np_scale(maximum_reduce(y.a), dx)))
                 lower_sum == np_sum(Arr(np_scale(minimum_reduce(y.a), dx)))
             IN  Outcome([upper_sum |-> upper_sum,
                          lower_sum |-> lower_sum,
                          integral_value |-> integral_value_of(upper_sum, lower_sum),
                          error_bound |-> error_bound_of(upper_sum, lower_sum)],
                         NoExc, <<partitions>>)

-----------------------------------------------------------------------------
(* CalcToolsServer._handle_riemann_stieltjes *)

\* partitions: int = 1000
DefaultPartitions == 1000

\* a slip: the left end point values f_vals[:-1]
f_left_of(f_vals) == Init1(f_vals)

\* (f_vals[1:] + f_vals[:-1]) / 2
f_midpoints_of(f_vals) ==
    [i \in 1..(Len(f_vals) - 1) |-> Mul(Add(Tail1(f_vals)[i], Init1(f_vals)[i]), R(1, 2))]

handle_riemann_stieltjes(function, integrator, start, end, partitions) ==
    IF ~WellFormed(function) \/ ~WellFormed(integrator) THEN Caught("SympifyError", <<>>)
    ELSE IF partitions + 1 < 0 THEN Caught("ValueError", <<>>)
    ELSE
    LET x == linspace(start, end, partitions + 1)
        f_vals == lambdify(function, x)
        g_vals == lambdify(integrator, x)
    IN  IF g_vals.scalar THEN Caught("ValueError", <<>>)
        ELSE IF f_vals.scalar THEN Caught("TypeError", <<>>)
        ELSE LET dg == np_diff(g_vals.a)
                 f_midpoints == f_midpoints_of(f_vals.a)
                 result == SumRange([i \in 1..Len(dg) |-> Mul(f_midpoints[i], dg[i])],
                                    1, Len(dg))
             IN  Outcome([result |-> result, partitions |-> partitions], NoExc, <<>>)

-----------------------------------------------------------------------------
(* CalcToolsServer._handle_lebesgue *)

\* x_points = np.linspace(start, end, 1000)
LebesguePoints == 1000

\* np.min and np.max of a non-empty array, by halves
RECURSIVE MinRange(_, _, _)
MinRange(s, lo, hi) ==
    IF lo = hi THEN s[lo]
    ELSE LET mid == (lo + hi) \div 2
         IN  np_minimum(MinRange(s, lo, mid), MinRange(s, mid + 1, hi))

RECURSIVE MaxRange(_, _, _)
MaxRange(s, lo, hi) ==
    IF lo = hi THEN s[lo]
    ELSE LET mid == (lo + hi) \div 2
         IN  np_maximum(MaxRange(s, lo, mid), MaxRange(s, mid + 1, hi))

np_min(y) == IF y.scalar THEN y.v ELSE MinRange(y.a, 1, Len(y.a))
np_max(y) == IF y.scalar THEN y.v ELSE MaxRange(y.a, 1, Len(y.a))

\* np.sum((y_values >= level) & (y_values < next_level))
mask_count(y, level, next_level) ==
    IF y.scalar THEN (IF Le(level, y.v) /\ Lt(y.v, next_level) THEN 1 ELSE 0)
    ELSE Cardinality({i \in 1..Len(y.a) : Le(level, y.a[i]) /\ Lt(y.a[i], next_level)})

\* the loop over range(levels - 1), from band i (0-based) on
RECURSIVE lebesgue_loop(_, _, _, _, _)
lebesgue_loop(y_values, level_values, dx, levels, i) ==
    IF i >= levels - 1 THEN Zero
    ELSE LET level == level_values[i + 1]
             next_level == level_values[i + 2]
             measure == Mul(Num(mask_count(y_values, level, next_level)), dx)
         IN  Add(Mul(level, measure),
                 lebesgue_loop(y_values, level_values, dx, levels, i + 1))

handle_lebesgue(function, start, end, levels) ==
    IF ~WellFormed(function) THEN Caught("SympifyError", <<>>)
    ELSE
    LET x_points == linspace(start, end, LebesguePoints)
        y_values == lambdify(function, x_points)
        y_min == np_min(y_values)
        y_max == np_max(y_values)
    IN  IF levels < 0 THEN Caught("ValueError", <<>>)
        ELSE LET level_values == linspace(y_min, y_max, levels)
                 dx == Div(Sub(end, start), Num(LebesguePoints - 1))
                 result == lebesgue_loop(y_values, level_values, dx, levels, 0)
             IN  Outcome([result |-> result, levels_used |-> levels,
                          domain |-> <<start, end>>], NoExc, <<>>)

-----------------------------------------------------------------------------
(* CalcToolsServer._handle_ito *)

\* the integrands of time t and Brownian motion w; "x +" is malformed
ItoExprs == {"1", "t", "w", "x +"}

\* the values one increment np.random.normal(0, sqrt(dt)) is drawn from
Increments == {0 - 1, 0, 1}

\* the path counts the model calls the handler with
PathCounts == {0 - 1, 0, 1, 2}

\* np.random.normal(0, np.sqrt(dt), (paths, steps)) for paths, steps >= 0:
\* every possible draw.  sqrt of a negative dt is nan, and so is every
\* increment then; with dt = 0 every increment is 0.
normal_draws(dt, paths, steps) ==
    IF Sign(dt) < 0 THEN {[p \in 1..paths |-> [k \in 1..steps |-> NaN]]}
    ELSE IF Sign(dt) = 0 THEN {[p \in 1..paths |-> [k \in 1..steps |-> Zero]]}
    ELSE [1..paths -> [1..steps -> {Num(v) : v \in Increments}]]

\* np.insert(np.cumsum(dW, axis=1), 0, 0, axis=1), one row: W[k] = W_{k-1}
RECURSIVE cumsum_at(_, _)
cumsum_at(row, k) == IF k = 0 THEN Zero ELSE Add(cumsum_at(row, k - 1), row[k])

\* a slip: the cumulative sums without the leading 0, so that the value
\* beside dW_i already holds dW_i
wiener_ahead(row) ==
    [k \in 1..(Len(row) + 1) |-> cumsum_at(row, IF k <= Len(row) THEN k ELSE Len(row))]

wiener(row) == [k \in 1..(Len(row) + 1) |-> cumsum_at(row, k - 1)]

\* the integrand at one (t, w)
ito_eval(function, t, w) ==
    CASE function = "1" -> Num(1)
      [] function = "t" -> t
      [] function = "w" -> w

\* f(times[:-1], W[i, :-1]): a scalar for a constant integrand
ito_lambdify(function, ts, ws) ==
    IF IsConstant(function) THEN Sca(Num(1))
    ELSE Arr([k \in 1..Len(ts) |-> ito_eval(function, ts[k], ws[k])])

\* np.sum(integrand * dW[i, :])
path_integral(integrand, row) ==
    IF integrand.scalar
    THEN SumRange([k \in 1..Len(row) |-> Mul(integrand.v, row[k])], 1, Len(row))
    ELSE SumRange([k \in 1..Len(row) |-> Mul(integrand.a[k], row[k])], 1, Len(row))

\* np.mean: nan for an empty array
np_mean(v) == IF Len(v) = 0 THEN NaN ELSE Div(SumRange(v, 1, Len(v)), Num(Len(v)))

\* the variance np.std takes the root of
np_var(v) ==
    LET m == np_mean(v)
    IN  np_mean([i \in 1..Len(v) |-> Mul(Sub(v[i], m), Sub(v[i], m))])

\* a float known by its square: the non-negative root of sq
Root(sq) == [root_of |-> sq]

\* mean + sign * 1.96 * std / sqrt(paths), kept as mean and the square of the
\* half width; std / sqrt(0) is nan
ci_bound(mean, var, paths, sign) ==
    [mean |-> mean, sign |-> sign,
     half_width |-> Root(IF paths = 0 THEN NaN
                         ELSE Mul(Mul(R(49 * 49, 25 * 25), var), R(1, paths)))]

handle_ito(function, start_time, end_time, paths, steps, dW) ==
    IF steps = 0 THEN Caught("ZeroDivisionError", <<steps>>)
    ELSE IF steps + 1 < 0 \/ paths < 0 \/ steps < 0 THEN Caught("ValueError", <<steps>>)
    ELSE IF ~WellFormed(function) THEN Caught("SympifyError", <<steps>>)
    ELSE
    LET times == linspace(start_time, end_time, steps + 1)
        integral_values ==
            [i \in 1..paths |->
                path_integral(ito_lambdify(function, Init1(times), Init1(wiener(dW[i]))),
                              dW[i])]
        mean_value == np_mean(integral_values)
        var_value == np_var(integral_values)
    IN  Outcome([mean |-> mean_value,
                 std_dev |-> Root(var_value),
                 confidence_interval |-> <<ci_bound(mean_value, var_value, paths, 0 - 1),
                                           ci_bound(mean_value, var_value, paths, 1)>>,
                 paths |-> paths,
                 steps |-> steps],
                NoExc, <<steps>>)

-----------------------------------------------------------------------------
(* core/calculus.py: the reducers that return a string.                    *)
(* The returned string is carried as [prefix, body]: prefix is "Error: "   *)
(* for f"Error: {e}" and the literal error returns, and "" for             *)
(* str(<number>), whose body is the number printed.  The variable of       *)
(* integration is "x" in every call.                                       *)

StrOf(v) == [prefix |-> "", body |-> v]
ErrorStr(msg) == [prefix |-> "Error: ", body |-> msg]

\* except Exception as e: return f"Error: {e}"
CaughtStr(exc, divisors) == Outcome(ErrorStr(exc), exc, divisors)

\* expression.subs(variable, x): sympy's value at one float; 1/0.0 is zoo
subs(expression, x) ==
    CASE expression = "x**2" -> Mul(x, x)
      [] expression = "x"    -> x
      [] expression = "-x"   -> Neg(x)
      [] expression = "1"    -> Num(1)
      [] expression = "1/x"  -> IF x.n = 0 THEN Zoo ELSE R(x.d, x.n)

\* Python's sum() of the first k items of a list, from 0.  Python adds from
\* left to right; the sum is exact here and Add is associative, also on zoo
\* and nan, so the same number is got by halves.
py_sum_to(s, k) == SumRange(s, 1, k)

\* a slip: the sum without its last term
py_sum_short(s) == IF Len(s) = 0 THEN Zero ELSE py_sum_to(s, Len(s) - 1)

py_sum(s) == py_sum_to(s, Len(s))

\* [a + i * delta_x for i in range(lo, hi)]
points(a, delta_x, lo, hi) ==
    [k \in 1..(hi - lo) |-> Add(a, Mul(Num(lo + k - 1), delta_x))]

\* a slip: the right end points in place of the midpoints
right_points(a, delta_x, n) == points(a, delta_x, 1, n + 1)

\* [a + (i + 0.5) * delta_x for i in range(n)]
mid_points(a, delta_x, n) ==
    [k \in 1..n |-> Add(a, Mul(R(2 * (k - 1) + 1, 2), delta_x))]

\* sum(expression.subs(variable, x) * delta_x for x in x_values)
sum_of_products(expression, x_values, delta_x) ==
    py_sum([k \in 1..Len(x_values) |-> Mul(subs(expression, x_values[k]), delta_x)])

CoreMethods == {"left", "right", "midpoint", "trapezoid", "simpson"}

riemann_sum(expression, a, b, n, method) ==
    IF ~WellFormed(expression) THEN CaughtStr("SympifyError", <<>>)
    ELSE IF n = 0 THEN CaughtStr("ZeroDivisionError", <<n>>)
    ELSE
    LET delta_x == Div(Sub(b, a), Num(n))
        ok(v) == Outcome(StrOf(v), NoExc, <<n>>)
    IN  IF method = "left"
            THEN ok(sum_of_products(expression, points(a, delta_x, 0, n), delta_x))
        ELSE IF method = "right"
            THEN ok(sum_of_products(expression, points(a, delta_x, 1, n + 1), delta_x))
        ELSE IF method = "midpoint"
            THEN ok(sum_of_products(expression, mid_points(a, delta_x, n), delta_x))
        ELSE IF method = "trapezoid"
            THEN IF n < 0 THEN CaughtStr("IndexError", <<n>>)
                 ELSE LET x_values == points(a, delta_x, 0, n + 1)
                          inner == py_sum([k \in 1..(n - 1) |->
                                              subs(expression, x_values[k + 1])])
                      IN  ok(Mul(Mul(delta_x, R(1, 2)),
                                 Add(Add(subs(expression, x_values[1]),
                                         Mul(Num(2), inner)),
                                     subs(expression, x_values[n + 1]))))
        ELSE Outcome(ErrorStr("Invalid method. Choose 'left', 'right', 'midpoint', or 'trapezoid'."),
                     NoExc, <<n>>)

\* a sympy comparison raises TypeError on zoo and on nan
Comparable(v) == IsFinite(v)

\* a slip: the value at the left end in place of the larger of the two
py_first(u, v) == u

\* max(f(lo), f(hi)) and min(f(lo), f(hi)) of Python, on comparable values
py_max(u, v) == IF Lt(u, v) THEN v ELSE u
py_min(u, v) == IF Lt(v, u) THEN v ELSE u

DarbouxTypes == {"upper", "lower", "middle"}

darboux_sum(expression, a, b, n, type) ==
    IF ~WellFormed(expression) THEN CaughtStr("SympifyError", <<>>)
    ELSE IF n = 0 THEN CaughtStr("ZeroDivisionError", <<n>>)
    ELSE
    LET delta_x == Div(Sub(b, a), Num(n))
        lo(i) == subs(expression, Add(a, Mul(Num(i), delta_x)))
        hi(i) == subs(expression, Add(a, Mul(Num(i + 1), delta_x)))
        fails == \E i \in 0..(n - 1) : ~Comparable(lo(i)) \/ ~Comparable(hi(i))
    IN  IF type = "upper"
            THEN IF fails THEN CaughtStr("TypeError", <<n>>)
                 ELSE Outcome(StrOf(py_sum([k \in 1..n |->
                                  Mul(py_max(lo(k - 1), hi(k - 1)), delta_x)])),
                              NoExc, <<n>>)
        ELSE IF type = "lower"
            THEN IF fails THEN CaughtStr("TypeError", <<n>>)
                 ELSE Outcome(StrOf(py_sum([k \in 1..n |->
                                  Mul(py_min(lo(k - 1), hi(k - 1)), delta_x)])),
                              NoExc, <<n>>)
        ELSE Outcome(ErrorStr("Invalid type. Choose 'upper' or 'lower'."), NoExc, <<n>>)

\* sum(expression.subs(variable, x) * integrator.subs(variable, x) * delta_x ...)
stieltjes_products(expression, integrator, x_values, delta_x) ==
    py_sum([k \in 1..Len(x_values) |->
              Mul(Mul(subs(expression, x_values[k]), subs(integrator, x_values[k])),
                  delta_x)])

StieltjesMethods == {"left", "right", "midpoint", "trapezoid"}

riemann_stieltjes_sum(expression, integrator, a, b, n, method) ==
    IF ~WellFormed(expression) \/ ~WellFormed(integrator)
        THEN CaughtStr("SympifyError", <<>>)
    ELSE IF n = 0 THEN CaughtStr("ZeroDivisionError", <<n>>)
    ELSE
    LET delta_x == Div(Sub(b, a), Num(n))
        ok(v) == Outcome(StrOf(v), NoExc, <<n>>)
    IN  IF method = "left"
            THEN ok(stieltjes_products(expression, integrator,
                                       points(a, delta_x, 0, n), delta_x))
        ELSE IF method = "right"
            THEN ok(stieltjes_products(expression, integrator,
                                       points(a, delta_x, 1, n + 1), delta_x))
        ELSE IF method = "midpoint"
            THEN ok(stieltjes_products(expression, integrator,
                                       mid_points(a, delta_x, n), delta_x))
        ELSE Outcome(ErrorStr("Invalid method. Choose 'left', 'right', or 'midpoint'."),
                     NoExc, <<n>>)

\* lebesgue_integral of core/calculus.py: the sum over the n left end points
lebesgue_integral(expression, a, b, n) ==
    IF ~WellFormed(expression) THEN CaughtStr("SympifyError", <<>>)
    ELSE IF n = 0 THEN CaughtStr("ZeroDivisionError", <<n>>)
    ELSE LET delta_x == Div(Sub(b, a), Num(n))
         IN  Outcome(StrOf(sum_of_products(expression, points(a, delta_x, 0, n), delta_x)),
                     NoExc, <<n>>)

\* ito_integral of core/calculus.py: every term is the expression at the left
\* end point t = a + i * delta_t times dW = sqrt(delta_t), the same in every
\* step.  The printed sum is carried as [coef, root_of], the number
\* coef * sqrt(root_of).
ito_integral(expression, a, b, n) ==
    IF ~WellFormed(expression) THEN CaughtStr("SympifyError", <<>>)
    ELSE IF n = 0 THEN CaughtStr("ZeroDivisionError", <<n>>)
    ELSE LET delta_t == Div(Sub(b, a), Num(n))
             ts == points(a, delta_t, 0, n)
         IN  Outcome(StrOf([coef |-> py_sum([k \in 1..Len(ts) |->
                                               subs(expression, ts[k])]),
                            root_of |-> delta_t]),
                     NoExc, <<n>>)

-----------------------------------------------------------------------------
(* core/calculus.py: the symbolic wrappers integrate and limit.  The       *)
(* module does `from sympy import *` and then defines integrate and limit  *)
(* itself: inside the wrappers the names integrate and limit are the       *)
(* wrappers, not sympy's routines.  A result carries, besides the returned *)
(* string, how often the wrapper was entered and how often sympy's routine *)
(* was called.                                                             *)

\* a name given as a Python str, and the sympy Symbol of that name
Str(name) == [type |-> "str", name |-> name]
Symbol(name) == [type |-> "Symbol", name |-> name]

\* return f"Error: {e}" out of a wrapper entered once
WrapperCaught(exc) ==
    [value |-> ErrorStr(exc), exc |-> exc, wrapper |-> 1, cas |-> 0]

\* return str(integral), integral being what the call at line 21 or 41 gave:
\* str of a str is the same string
WrapperReturn(inner) ==
    [value |-> inner.value, exc |-> inner.exc,
     wrapper |-> 1 + inner.wrapper, cas |-> inner.cas]

\* sympify raises on a malformed expression; symbols(names) iterates over a
\* names that is not a str, and a Symbol is not iterable: TypeError
RECURSIVE integrate(_, _)
integrate(expression, variable) ==
    IF ~WellFormed(expression) THEN WrapperCaught("SympifyError")
    ELSE IF variable.type # "str" THEN WrapperCaught("TypeError")
    ELSE WrapperReturn(integrate(expression, Symbol(variable.name)))

RECURSIVE limit(_, _, _)
limit(expression, variable, approach) ==
    IF ~WellFormed(expression) THEN WrapperCaught("SympifyError")
    ELSE IF variable.type # "str" THEN WrapperCaught("TypeError")
    ELSE WrapperReturn(limit(expression, Symbol(variable.name), approach))

\* routes/calculus_routes.py: {"result": str(result)}
symbolic_integral(expression, variable) ==
    LET result == integrate(expression, variable)
    IN  [result EXCEPT !.value = [result |-> result.value]]

-----------------------------------------------------------------------------
(* The FastMCP tools definite_integral and numerical_integration_methods.  *)
(* Both evaluate the expression with Python's eval; nothing is caught in   *)
(* definite_integral, whose exceptions leave the tool.                     *)

\* the expressions with a closed-form integral that quad returns
PolyExprs == Exprs \ {"1/x"}

\* eval(function, ...) at a numpy float: 1/0.0 is inf
eval_func(function, x) == np_eval(function, x)

\* the antiderivative of the polynomial integrands at x
antiderivative(function, x) ==
    CASE function = "x**2" -> Mul(Mul(Mul(x, x), x), R(1, 3))
      [] function = "x"    -> Mul(Mul(x, x), R(1, 2))
      [] function = "-x"   -> Neg(Mul(Mul(x, x), R(1, 2)))
      [] function = "1"    -> x

\* integrate.quad(eval_func, a, b)[0]: exact on the polynomial integrands
quad(function, a, b) == Sub(antiderivative(function, b), antiderivative(function, a))

\* the return of a tool that let an exception out
Raised(exc) == Outcome([exception |-> exc], exc, <<>>)

definite_integral(function, lower_bound, upper_bound) ==
    IF ~WellFormed(function) THEN Raised("SyntaxError")
    ELSE Outcome(quad(function, lower_bound, upper_bound), NoExc, <<>>)

\* y[::2]
every_other(s) == [k \in 1..((Len(s) + 1) \div 2) |-> s[2 * k - 1]]

\* np.trapz(y, x)
np_trapz(y, x) == trapezoid(y, x)

AbsVal(v) == IF IsFinite(v) /\ v.n < 0 THEN Neg(v) ELSE IF v = NInf THEN Inf ELSE v

\* the methods the model calls the tool with; "romberg" is not one the tool
\* knows, and "simpson" (scipy's integrate.simpson) is not modelled
NumMethods == {"quad", "trapezoid", "midpoint", "romberg"}

\* except Exception as e: return {"error": f"Error during integration: {str(e)}"}
CaughtNum(exc, divisors) == Outcome(ErrorDict("Error during integration"), exc, divisors)

numerical_integration_methods(function, lower_bound, upper_bound, method, pts) ==
    IF method = "quad"
    THEN IF ~WellFormed(function) THEN CaughtNum("SyntaxError", <<>>)
         ELSE Outcome([result |-> quad(function, lower_bound, upper_bound),
                       error |-> Zero, method |-> "scipy.quad"], NoExc, <<>>)
    ELSE IF method = "trapezoid"
    THEN IF pts < 0 THEN CaughtNum("ValueError", <<>>)
         ELSE IF pts > 0 /\ ~WellFormed(function) THEN CaughtNum("SyntaxError", <<>>)
         ELSE LET x == linspace(lower_bound, upper_bound, pts)
                  y == [k \in 1..pts |-> eval_func(function, x[k])]
                  result == np_trapz(y, x)
                  error == AbsVal(Sub(result, np_trapz(every_other(y), every_other(x))))
              IN  Outcome([result |-> result, error |-> error, method |-> "trapezoid"],
                          NoExc, <<>>)
    ELSE IF method = "midpoint"
    THEN IF pts = 0 THEN CaughtNum("ZeroDivisionError", <<pts>>)
         ELSE IF pts < 0 THEN CaughtNum("ValueError", <<pts>>)
         ELSE IF ~WellFormed(function) THEN CaughtNum("SyntaxError", <<pts>>)
         ELSE LET dx == Div(Sub(upper_bound, lower_bound), Num(pts))
                  half == Mul(dx, R(1, 2))
                  x == linspace(Add(lower_bound, half), Sub(upper_bound, half), pts)
                  y == [k \in 1..pts |-> eval_func(function, x[k])]
                  result == Mul(SumRange(y, 1, pts), dx)
                  y2 == every_other(y)
                  error == AbsVal(Sub(result,
                               Mul(Mul(SumRange(y2, 1, Len(y2)), dx), Num(2))))
              IN  Outcome([result |-> result, error |-> error, method |-> "midpoint"],
                          NoExc, <<pts>>)
    ELSE Outcome(ErrorDict("Unknown method"), NoExc, <<>>)

-----------------------------------------------------------------------------
(* The FastMCP tool linear_regression of server/server.py.  The length     *)
(* check raises inside the tool and nothing in the tool catches it.        *)

\* a / b of numpy floats: a division by zero gives inf or nan and a warning,
\* never an exception
np_true_divide(a, b) ==
    IF IsNaN(a) \/ IsNaN(b) THEN NaN
    ELSE IF ~IsFinite(b) THEN IF IsFinite(a) THEN Zero ELSE NaN
    ELSE IF b.n = 0 THEN IF a.n = 0 THEN NaN
                         ELSE IF Sign(a) > 0 THEN Inf ELSE NInf
    ELSE IF ~IsFinite(a) THEN IF Sign(a) * Sign(b) > 0 THEN Inf ELSE NInf
    ELSE Div(a, b)

linear_regression(x_values, y_values) ==
    IF Len(x_values) # Len(y_values) THEN Raised("ValueError")
    ELSE
    LET n == Len(x_values)
        x == x_values
        y == y_values
        sum_x == SumRange(x, 1, n)
        sum_y == SumRange(y, 1, n)
        sum_xy == SumRange([k \in 1..n |-> Mul(x[k], y[k])], 1, n)
        sum_xx == SumRange([k \in 1..n |-> Mul(x[k], x[k])], 1, n)
        slope == np_true_divide(Sub(Mul(Num(n), sum_xy), Mul(sum_x, sum_y)),
                                Sub(Mul(Num(n), sum_xx), Mul(sum_x, sum_x)))
        intercept == np_true_divide(Sub(sum_y, Mul(slope, sum_x)), Num(n))
        y_pred == [k \in 1..n |-> Add(Mul(slope, x[k]), intercept)]
        mean_y == np_true_divide(sum_y, Num(n))
        ss_res == SumRange([k \in 1..n |-> Mul(Sub(y[k], y_pred[k]),
                                               Sub(y[k], y_pred[k]))], 1, n)
        ss_tot == SumRange([k \in 1..n |-> Mul(Sub(y[k], mean_y),
                                               Sub(y[k], mean_y))], 1, n)
        r_squared == Sub(Num(1), np_true_divide(ss_res, ss_tot))
    IN  Outcome([slope |-> slope, intercept |-> intercept, r_squared |-> r_squared],
                NoExc, <<n>>)

-----------------------------------------------------------------------------
(* The server: one tool call at a time is received, handled and answered.  *)

NoReq == [op |-> "none"]
NoRet == [kind |-> "none"]

Coords == (0 - MaxCoord)..MaxCoord
Counts == (0 - MaxNeg)..MaxN
StepCounts == (0 - MaxNeg)..MaxSteps

\* the intervals given to the handlers with a fixed 1000-point mesh
MeshIntervals == {<<0, 1>>, <<1, 0>>, <<0, 0>>, <<0 - 1, 1>>}
LebesgueIntervals == {<<0, 1>>, <<1, 0>>, <<0, 0>>}

\* calls counts, for the call being handled, the entries into a symbolic
\* wrapper and the calls of sympy's routine
NoCalls == [wrapper |-> 0, cas |-> 0]

\* rng is the state of the generator behind np.random, which lives as long as
\* the process: the number of values drawn from it so far.  drawn holds the
\* increments the call being handled drew.
Init ==
    /\ req = NoReq
    /\ ret = NoRet
    /\ caught = NoExc
    /\ divs = <<>>
    /\ rng = 0
    /\ drawn = <<>>
    /\ calls = NoCalls
    /\ shutdown_requested = FALSE
    /\ pc = "startup"
    /\ signals = <<>>
    /\ raised = 0
    /\ run_outcome = "none"
    /\ exit = <<>>

Idle == req = NoReq

Receive(r) ==
    /\ req' = r
    /\ ret' = NoRet
    /\ caught' = NoExc
    /\ divs' = <<>>
    /\ drawn' = <<>>
    /\ calls' = NoCalls
    /\ UNCHANGED <<rng, cli>>

Finish(o, kind) ==
    /\ ret' = [kind |-> kind, d |-> o.value]
    /\ caught' = o.exc
    /\ divs' = o.divs
    /\ UNCHANGED <<req, rng, drawn, calls, cli>>

\* the end of a call of a symbolic wrapper
FinishWrapper(o, kind) ==
    /\ ret' = [kind |-> kind, d |-> o.value]
    /\ caught' = o.exc
    /\ calls' = [wrapper |-> o.wrapper, cas |-> o.cas]
    /\ UNCHANGED <<req, divs, rng, drawn, cli>>

Pending(op) == req.op = op /\ ret = NoRet

CallRiemann ==
    /\ Idle
    /\ \E f \in MeshExprs, iv \in MeshIntervals, m \in Methods :
        Receive([op |-> "riemann_integral", function |-> f,
                 start |-> Num(iv[1]), end |-> Num(iv[2]), method |-> m])

HandleRiemann ==
    /\ Pending("riemann_integral")
    /\ Finish(handle_riemann(req.function, req.start, req.end, req.method), "dict")

CallDarboux ==
    /\ Idle
    /\ \E f \in Exprs, s \in Coords, e \in Coords, p \in Counts :
        Receive([op |-> "darboux_integral", function |-> f,
                 start |-> Num(s), end |-> Num(e), partitions |-> p])

HandleDarboux ==
    /\ Pending("darboux_integral")
    /\ Finish(handle_darboux(req.function, req.start, req.end, req.partitions), "dict")

CallRiemannStieltjes ==
    /\ Idle
    /\ \E f \in Exprs, g \in Exprs, s \in Coords, e \in Coords, p \in Counts :
        Receive([op |-> "riemann_stieltjes", function |-> f, integrator |-> g,
                 start |-> Num(s), end |-> Num(e), partitions |-> p])

HandleRiemannStieltjes ==
    /\ Pending("riemann_stieltjes")
    /\ Finish(handle_riemann_stieltjes(req.function, req.integrator,
                                       req.start, req.end, req.partitions), "dict")

\* test_riemann_stieltjes: f = x, g = x**2 on [0, 1], partitions left at its default
test_riemann_stieltjes ==
    /\ Idle
    /\ Receive([op |-> "riemann_stieltjes", function |-> "x", integrator |-> "x**2",
                start |-> Num(0), end |-> Num(1), partitions |-> DefaultPartitions])

CallLebesgue ==
    /\ Idle
    /\ \E f \in MeshExprs, iv \in LebesgueIntervals, l \in Counts :
        Receive([op |-> "lebesgue_integral", function |-> f,
                 start |-> Num(iv[1]), end |-> Num(iv[2]), levels |-> l])

HandleLebesgue ==
    /\ Pending("lebesgue_integral")
    /\ Finish(handle_lebesgue(req.function, req.start, req.end, req.levels), "dict")

CallIto ==
    /\ Idle
    /\ \E f \in ItoExprs, s \in Coords, e \in Coords, p \in PathCounts,
          k \in StepCounts :
        Receive([op |-> "ito_integral", function |-> f,
                 start_time |-> Num(s), end_time |-> Num(e), paths |-> p, steps |-> k])

\* the increments are drawn inside the handler, from the process-wide
\* generator, whose state moves on by the paths * steps values drawn.  The
\* seed is not known: the values drawn are any the distribution can give.
HandleIto ==
    /\ Pending("ito_integral")
    /\ LET dt == IF req.steps = 0 THEN Zero
                 ELSE Div(Sub(req.end_time, req.start_time), Num(req.steps))
           reached == req.paths >= 0 /\ req.steps > 0
           draws == IF reached THEN normal_draws(dt, req.paths, req.steps) ELSE {<<>>}
       IN  \E dW \in draws :
               LET o == handle_ito(req.function, req.start_time, req.end_time,
                                   req.paths, req.steps, dW)
               IN  /\ ret' = [kind |-> "dict", d |-> o.value]
                   /\ caught' = o.exc
                   /\ divs' = o.divs
                   /\ drawn' = dW
                   /\ rng' = IF reached
                             THEN (rng + req.paths * req.steps) % GeneratorStates
                             ELSE rng
                   /\ UNCHANGED <<req, calls, cli>>

CallRiemannSum ==
    /\ Idle
    /\ \E f \in Exprs, a \in Coords, b \in Coords, n \in Counts, m \in CoreMethods :
        Receive([op |-> "riemann_sum", expression |-> f,
                 a |-> Num(a), b |-> Num(b), n |-> n, method |-> m])

RunRiemannSum ==
    /\ Pending("riemann_sum")
    /\ Finish(riemann_sum(req.expression, req.a, req.b, req.n, req.method), "str")

\* n = 100 of test_riemann_sum
TestSubintervals == 100

\* test_riemann_sum: x**2 on [0, 1] with n = 100, by each of the four methods
test_riemann_sum ==
    /\ Idle
    /\ \E m \in {"left", "right", "midpoint", "trapezoid"} :
        Receive([op |-> "riemann_sum", expression |-> "x**2",
                 a |-> Num(0), b |-> Num(1), n |-> TestSubintervals, method |-> m])

CallDarbouxSum ==
    /\ Idle
    /\ \E f \in Exprs, a \in Coords, b \in Coords, n \in Counts, t \in DarbouxTypes :
        Receive([op |-> "darboux_sum", expression |-> f,
                 a |-> Num(a), b |-> Num(b), n |-> n, type |-> t])

RunDarbouxSum ==
    /\ Pending("darboux_sum")
    /\ Finish(darboux_sum(req.expression, req.a, req.b, req.n, req.type), "str")

\* test_darboux_sum: x**2 on [0, 1] with n = 100, upper and lower
test_darboux_sum ==
    /\ Idle
    /\ \E t \in {"upper", "lower"} :
        Receive([op |-> "darboux_sum", expression |-> "x**2",
                 a |-> Num(0), b |-> Num(1), n |-> TestSubintervals, type |-> t])

CallRiemannStieltjesSum ==
    /\ Idle
    /\ \E f \in Exprs, g \in Exprs, a \in Coords, b \in Coords, n \in Counts,
       m \in StieltjesMethods :
        Receive([op |-> "riemann_stieltjes_sum", expression |-> f, integrator |-> g,
                 a |-> Num(a), b |-> Num(b), n |-> n, method |-> m])

RunRiemannStieltjesSum ==
    /\ Pending("riemann_stieltjes_sum")
    /\ Finish(riemann_stieltjes_sum(req.expression, req.integrator,
                                    req.a, req.b, req.n, req.method), "str")

CallLebesgueIntegral ==
    /\ Idle
    /\ \E f \in Exprs, a \in Coords, b \in Coords, n \in Counts :
        Receive([op |-> "lebesgue_integral_core", expression |-> f,
                 a |-> Num(a), b |-> Num(b), n |-> n])

RunLebesgueIntegral ==
    /\ Pending("lebesgue_integral_core")
    /\ Finish(lebesgue_integral(req.expression, req.a, req.b, req.n), "str")

CallItoIntegral ==
    /\ Idle
    /\ \E f \in Exprs, a \in Coords, b \in Coords, n \in Counts :
        Receive([op |-> "ito_integral_core", expression |-> f,
                 a |-> Num(a), b |-> Num(b), n |-> n])

RunItoIntegral ==
    /\ Pending("ito_integral_core")
    /\ Finish(ito_integral(req.expression, req.a, req.b, req.n), "str")

CallDefiniteIntegral ==
    /\ Idle
    /\ \E f \in PolyExprs, a \in Coords, b \in Coords :
        Receive([op |-> "definite_integral", function |-> f,
                 lower_bound |-> Num(a), upper_bound |-> Num(b)])

RunDefiniteIntegral ==
    /\ Pending("definite_integral")
    /\ LET o == definite_integral(req.function, req.lower_bound, req.upper_bound)
       IN  Finish(o, IF o.exc = NoExc THEN "float" ELSE "raise")

CallNumericalIntegration ==
    /\ Idle
    /\ \E f \in PolyExprs, a \in Coords, b \in Coords, m \in NumMethods, n \in Counts :
        Receive([op |-> "numerical_integration_methods", function |-> f,
                 lower_bound |-> Num(a), upper_bound |-> Num(b),
                 method |-> m, points |-> n])

RunNumericalIntegration ==
    /\ Pending("numerical_integration_methods")
    /\ Finish(numerical_integration_methods(req.function, req.lower_bound,
                                            req.upper_bound, req.method, req.points),
              "dict")

\* the lists of numbers the regression tool is called with
Samples ==
    {<<>>, <<Num(1)>>, <<Num(1), Num(2)>>, <<Num(1), Num(1)>>, <<Num(2), Num(4)>>,
     <<Num(0), Num(1), Num(2)>>, <<Num(1), Num(0), Num(2)>>}

CallLinearRegression ==
    /\ Idle
    /\ \E xs \in Samples, ys \in Samples :
        Receive([op |-> "linear_regression", x_values |-> xs, y_values |-> ys])

RunLinearRegression ==
    /\ Pending("linear_regression")
    /\ LET o == linear_regression(req.x_values, req.y_values)
       IN  Finish(o, IF o.exc = NoExc THEN "dict" ELSE "raise")

\* the expressions are integrated, and their limits taken, in x
CallIntegrate ==
    /\ Idle
    /\ \E f \in Exprs :
        Receive([op |-> "integrate", expression |-> f, variable |-> Str("x")])

RunIntegrate ==
    /\ Pending("integrate")
    /\ FinishWrapper(integrate(req.expression, req.variable), "str")

CallLimit ==
    /\ Idle
    /\ \E f \in Exprs, p \in Coords :
        Receive([op |-> "limit", expression |-> f, variable |-> Str("x"),
                 approach |-> Num(p)])

RunLimit ==
    /\ Pending("limit")
    /\ FinishWrapper(limit(req.expression, req.variable, req.approach), "str")

CallSymbolicIntegral ==
    /\ Idle
    /\ \E f \in Exprs :
        Receive([op |-> "symbolic_integral", expression |-> f, variable |-> Str("x")])

RunSymbolicIntegral ==
    /\ Pending("symbolic_integral")
    /\ FinishWrapper(symbolic_integral(req.expression, req.variable), "dict")

Respond ==
    /\ ret # NoRet
    /\ req' = NoReq
    /\ ret' = NoRet
    /\ caught' = NoExc
    /\ divs' = <<>>
    /\ drawn' = <<>>
    /\ calls' = NoCalls
    /\ UNCHANGED <<rng, cli>>

Next ==
    \/ CallRiemann
    \/ HandleRiemann
    \/ CallDarboux
    \/ HandleDarboux
    \/ CallRiemannStieltjes
    \/ HandleRiemannStieltjes
    \/ test_riemann_stieltjes
    \/ CallLebesgue
    \/ HandleLebesgue
    \/ CallIto
    \/ HandleIto
    \/ CallRiemannSum
    \/ RunRiemannSum
    \/ test_riemann_sum
    \/ CallDarbouxSum
    \/ RunDarbouxSum
    \/ test_darboux_sum
    \/ CallRiemannStieltjesSum
    \/ RunRiemannStieltjesSum
    \/ CallLebesgueIntegral
    \/ RunLebesgueIntegral
    \/ CallItoIntegral
    \/ RunItoIntegral
    \/ CallDefiniteIntegral
    \/ RunDefiniteIntegral
    \/ CallNumericalIntegration
    \/ RunNumericalIntegration
    \/ Respond
    \/ CallLinearRegression
    \/ RunLinearRegression
    \/ CallIntegrate
    \/ RunIntegrate
    \/ CallLimit
    \/ RunLimit
    \/ CallSymbolicIntegral
    \/ RunSymbolicIntegral

Spec == Init /\ [][Next]_vars

-----------------------------------------------------------------------------
(* server/cli.py: the process that runs the server, from the point where   *)
(* main has installed signal_handler for SIGINT and SIGTERM.  pc is where  *)
(* main stands:                                                            *)
(*   "startup"      line 40, inside the outer try, before server.run       *)
(*   "running"      line 44, inside server.run                             *)
(*   "stopping"     line 46, in `except KeyboardInterrupt`                 *)
(*   "failing"      lines 48-49, in the inner `except Exception`           *)
(*   "stopped"      line 51, server.run has returned                       *)
(*   "startup_error" lines 53-54, in the outer `except Exception`          *)
(*   "returned"     main has returned exit[1]                              *)
(*   "interrupted"  KeyboardInterrupt has left main                        *)
(* signals is the list of the signals delivered so far, raised the number  *)
(* of KeyboardInterrupts signal_handler has raised and run_outcome the way *)
(* server.run ended.                                                       *)

Signals == {"SIGINT", "SIGTERM"}

\* main is still on the stack
Alive == pc \notin {"returned", "interrupted"}

\* a slip: the handler raises on every signal
always(flag) == TRUE

\* if not shutdown_requested:
first_request(flag) == ~flag

\* where a KeyboardInterrupt raised at the position p lands: only the inner
\* try around server.run catches it, `except Exception` does not
unwind(p) == IF p = "running" THEN "stopping" ELSE "interrupted"

\* one signal is delivered and signal_handler runs in the main thread
signal_handler ==
    /\ Alive
    /\ Len(signals) < MaxSignals
    /\ \E signum \in Signals : signals' = Append(signals, signum)
    /\ IF first_request(shutdown_requested)
       THEN /\ shutdown_requested' = TRUE
            /\ raised' = raised + 1
            /\ pc' = unwind(pc)
            /\ run_outcome' = IF pc = "running" THEN "KeyboardInterrupt" ELSE run_outcome
       ELSE UNCHANGED <<shutdown_requested, raised, pc, run_outcome>>
    /\ UNCHANGED <<exit, calc>>

\* logger.info("Starting MCP Calc Tools server..."), then server.run()
StartServer ==
    /\ pc = "startup"
    /\ pc' = "running"
    /\ UNCHANGED <<shutdown_requested, signals, raised, run_outcome, exit, calc>>

\* an Exception before server.run is entered
StartupFails ==
    /\ pc = "startup"
    /\ pc' = "startup_error"
    /\ UNCHANGED <<shutdown_requested, signals, raised, run_outcome, exit, calc>>

\* server.run raises an exception other than KeyboardInterrupt
ServerRaises ==
    /\ pc = "running"
    /\ pc' = "failing"
    /\ run_outcome' = "Exception"
    /\ UNCHANGED <<shutdown_requested, signals, raised, exit, calc>>

\* server.run returns
ServerReturns ==
    /\ pc = "running"
    /\ pc' = "stopped"
    /\ run_outcome' = "returned"
    /\ UNCHANGED <<shutdown_requested, signals, raised, exit, calc>>

\* return 0 after `except KeyboardInterrupt` or after server.run returned,
\* return 1 out of either `except Exception`
exit_code(p) == IF p \in {"stopping", "stopped"} THEN <<0>> ELSE <<1>>

MainReturns ==
    /\ pc \in {"stopping", "stopped", "failing", "startup_error"}
    /\ pc' = "returned"
    /\ exit' = exit_code(pc)
    /\ UNCHANGED <<shutdown_requested, signals, raised, run_outcome, calc>>

NextCli ==
    \/ signal_handler
    \/ StartServer
    \/ StartupFails
    \/ ServerRaises
    \/ ServerReturns
    \/ MainReturns

SpecCli == Init /\ [][NextCli]_vars

-----------------------------------------------------------------------------
(* What a finished call looks like. *)

Returned == ret.kind # "none"

\* a map that carries a computed value
HasPayload ==
    /\ ret.kind = "dict"
    /\ \/ "result" \in DOMAIN ret.d
       \/ "upper_sum" \in DOMAIN ret.d
       \/ "mean" \in DOMAIN ret.d
       \/ "slope" \in DOMAIN ret.d

\* the error result shape: a map with "error" and no value, or an "Error: " string
ErrorResult ==
    \/ ret.kind = "dict" /\ "error" \in DOMAIN ret.d /\ ~HasPayload
    \/ ret.kind = "str" /\ ret.d.prefix = "Error: "

\* a numeric success: a float, a map with a value, or a printed number
NumericResult ==
    \/ ret.kind = "float"
    \/ HasPayload
    \/ ret.kind = "str" /\ ret.d.prefix = ""

\* the subdivision counts of a call
CountsOf(r) ==
    CASE r.op \in {"darboux_integral", "riemann_stieltjes"} -> {r.partitions}
      [] r.op = "lebesgue_integral" -> {r.levels}
      [] r.op = "ito_integral" -> {r.paths, r.steps}
      [] r.op \in {"riemann_sum", "darboux_sum", "riemann_stieltjes_sum",
                   "lebesgue_integral_core", "ito_integral_core"} -> {r.n}
      [] r.op = "numerical_integration_methods" /\ r.method # "quad" -> {r.points}
      [] OTHER -> {}

\* the operations that take a scheme or method selector, and the sets they document
HasSelector(r) ==
    r.op \in {"riemann_integral", "riemann_sum", "darboux_sum",
              "riemann_stieltjes_sum", "numerical_integration_methods"}

ValidSelector(r) ==
    CASE r.op \in {"riemann_integral", "riemann_sum"} ->
             r.method \in {"left", "right", "midpoint", "trapezoid"}
      [] r.op = "darboux_sum" -> r.type \in {"upper", "lower"}
      [] r.op = "riemann_stieltjes_sum" -> r.method \in {"left", "right", "midpoint"}
      [] r.op = "numerical_integration_methods" ->
             r.method \in {"quad", "trapezoid", "simpson", "midpoint"}
      [] OTHER -> TRUE

\* the operations registered as tools
ToolOps == {"riemann_integral", "darboux_integral", "riemann_stieltjes",
            "lebesgue_integral", "ito_integral", "definite_integral",
            "numerical_integration_methods"}

-----------------------------------------------------------------------------
\* C1: every reducer called with a subdivision count that is 0 or negative
\* returns an error result, never a numeric success.
C1_NonPositiveCountRejected ==
    (Returned /\ \E c \in CountsOf(req) : c <= 0) => ErrorResult

\* C2: no division by the subdivision count is executed while the count is 0.
C2_CountCheckedBeforeDivision ==
    \A k \in DOMAIN divs : divs[k] # 0

\* C3: with a valid scheme and positive counts, whatever the expression string,
\* a tool returns (it does not raise) a numeric result or a tagged error.
C3_ToolsNeverRaise ==
    (/\ Returned
     /\ req.op \in ToolOps
     /\ ValidSelector(req)
     /\ \A c \in CountsOf(req) : c > 0)
    => (ret.kind # "raise" /\ (NumericResult \/ ErrorResult))

\* C4: a returned map has the key "error" exactly when the call failed: a map
\* that carries a computed value never has it, a map without one always has.
C4_ErrorKeyReserved ==
    ret.kind = "dict" => (("error" \in DOMAIN ret.d) <=> ~HasPayload)

\* C5: a selector outside the operation's enumerated set gives an error
\* result; no scheme is computed in its place.
C5_UnknownSelectorRejected ==
    (Returned /\ HasSelector(req) /\ ~ValidSelector(req)) => ErrorResult

-----------------------------------------------------------------------------
\* the points at which a call samples its expressions
SamplePoints(r) ==
    CASE r.op \in {"darboux_integral", "riemann_stieltjes"} /\ r.partitions > 0 ->
             linspace(r.start, r.end, r.partitions + 1)
      [] r.op = "riemann_sum" /\ r.n > 0 /\ r.method = "left" ->
             points(r.a, Div(Sub(r.b, r.a), Num(r.n)), 0, r.n)
      [] r.op = "riemann_sum" /\ r.n > 0 /\ r.method = "right" ->
             points(r.a, Div(Sub(r.b, r.a), Num(r.n)), 1, r.n + 1)
      [] OTHER -> <<>>

SampledExprs(r) ==
    CASE r.op = "darboux_integral" -> {r.function}
      [] r.op = "riemann_stieltjes" -> {r.function, r.integrator}
      [] r.op = "riemann_sum" -> {r.expression}
      [] OTHER -> {}

\* 1/x is evaluated at 0
DomainErrorHit(r) ==
    /\ "1/x" \in SampledExprs(r)
    /\ \E k \in DOMAIN SamplePoints(r) : SamplePoints(r)[k].n = 0

\* C6: when the expression has a domain error at a sample point, the call
\* returns the error result shape, not a success with a value.
C6_DomainErrorReported ==
    (Returned /\ DomainErrorHit(req)) => ErrorResult

\* C7: every successful Darboux result has lower_sum <= upper_sum, also when
\* start > end.
C7_LowerLeUpper ==
    (req.op = "darboux_integral" /\ HasPayload)
    => Le(ret.d.lower_sum, ret.d.upper_sum)

-----------------------------------------------------------------------------
\* the sum over the subintervals 1..i of the larger (upper) or the smaller of
\* the two end point samples y[k], y[k + 1], times the width
RECURSIVE EndPointSum(_, _, _, _)
EndPointSum(y, width, i, upper) ==
    IF i <= 0 THEN Zero
    ELSE LET u == y[i]
             v == y[i + 1]
             pick == IF upper THEN (IF Le(u, v) THEN v ELSE u)
                     ELSE (IF Le(u, v) THEN u ELSE v)
         IN  Add(EndPointSum(y, width, i - 1, upper), Mul(pick, width))

-----------------------------------------------------------------------------
\* the sum over the n subintervals of f at the midpoint (x_i + x_{i+1}) / 2
\* times the increment of g, g(x_{i+1}) - g(x_i)
MidpointStieltjes(function, integrator, x, i) ==
    SumRange([k \in 1..i |->
                Mul(np_eval(function, Mul(Add(x[k], x[k + 1]), R(1, 2))),
                    Sub(np_eval(integrator, x[k + 1]), np_eval(integrator, x[k])))],
             1, i)

\* the midpoint Riemann sum of f over the n subintervals of width dx
RECURSIVE MidpointRiemann(_, _, _, _)
MidpointRiemann(function, start, dx, i) ==
    IF i <= 0 THEN Zero
    ELSE Add(MidpointRiemann(function, start, dx, i - 1),
             Mul(np_eval(function, Add(start, Mul(R(2 * i - 1, 2), dx))), dx))

\* C9: with the integrator g(x) = x the Riemann-Stieltjes result is the
\* midpoint Riemann sum of f over the same partition.
C9_IdentityIntegratorIsMidpoint ==
    (/\ req.op = "riemann_stieltjes"
     /\ HasPayload
     /\ req.integrator = "x"
     /\ req.partitions > 0)
    => ret.d.result = MidpointRiemann(req.function, req.start,
                          Div(Sub(req.end, req.start), Num(req.partitions)),
                          req.partitions)

\* C10: the Riemann-Stieltjes result is the sum over the subintervals of f at
\* the midpoint times the increment of g.
C10_MidpointTimesIncrement ==
    (/\ req.op = "riemann_stieltjes"
     /\ HasPayload
     /\ req.partitions > 0)
    => ret.d.result = MidpointStieltjes(req.function, req.integrator,
                          linspace(req.start, req.end, req.partitions + 1),
                          req.partitions)

-----------------------------------------------------------------------------
\* the four Riemann rules on n subintervals of width dx, from the samples
\* y[k] = f(start + (k - 1) * dx), k = 1 .. n + 1, and the midpoint samples
\* mid[k] = f(start + (k - 1/2) * dx), k = 1 .. n
RiemannRule(y, mid, dx, n, method) ==
    CASE method = "left"      -> Mul(dx, SumRange(y, 1, n))
      [] method = "right"     -> Mul(dx, SumRange(y, 2, n + 1))
      [] method = "midpoint"  -> Mul(dx, SumRange(mid, 1, n))
      [] method = "trapezoid" ->
             Mul(Mul(dx, R(1, 2)),
                 Add(Add(y[1], Mul(Num(2), SumRange(y, 2, n))), y[n + 1]))

RuleMethods == {"left", "right", "midpoint", "trapezoid"}

\* C11: for n > 0 subintervals of width dx = (end - start) / n the Riemann
\* reducer returns dx * (y_0 + .. + y_{n-1}) for left, dx * (y_1 + .. + y_n) for
\* right, dx * sum of f at the midpoints for midpoint, and
\* (dx / 2) * (y_0 + 2 * (y_1 + .. + y_{n-1}) + y_n) for trapezoid; the handler
\* does so on the RiemannPoints - 1 subintervals of its mesh.
C11_RiemannRules ==
    /\ (/\ req.op = "riemann_integral"
        /\ Returned
        /\ WellFormed(req.function)
        /\ req.method \in RuleMethods) =>
        LET n == RiemannPoints - 1
            dx == Div(Sub(req.end, req.start), Num(n))
            y == [k \in 1..(n + 1) |->
                    np_eval(req.function, Add(req.start, Mul(Num(k - 1), dx)))]
            mid == [k \in 1..n |->
                    np_eval(req.function, Add(req.start, Mul(R(2 * k - 1, 2), dx)))]
        IN  /\ HasPayload
            /\ ret.d.result = RiemannRule(y, mid, dx, n, req.method)
    /\ (/\ req.op = "riemann_sum"
        /\ Returned
        /\ WellFormed(req.expression)
        /\ req.n > 0
        /\ req.method \in RuleMethods) =>
        LET n == req.n
            dx == Div(Sub(req.b, req.a), Num(n))
            y == [k \in 1..(n + 1) |->
                    subs(req.expression, Add(req.a, Mul(Num(k - 1), dx)))]
            mid == [k \in 1..n |->
                    subs(req.expression, Add(req.a, Mul(R(2 * k - 1, 2), dx)))]
        IN  /\ ret.d.prefix = ""
            /\ ret.d.body = RiemannRule(y, mid, dx, n, req.method)

-----------------------------------------------------------------------------
\* how many of the samples y lie in the band from lo to hi: lo <= y < hi, and
\* y = hi too in the topmost band
BandCount(y, lo, hi, topmost) ==
    Cardinality({i \in 1..Len(y) :
                    Le(lo, y[i]) /\ (Lt(y[i], hi) \/ (topmost /\ y[i] = hi))})

\* the sum over the bands k .. levels - 1 (from 0) of the `levels` equal bands
\* of [y_min, y_max]: the fraction of the samples in the band, times the
\* length of the domain, times the band's lower level value
RECURSIVE BandSum(_, _, _, _, _, _)
BandSum(y, y_min, band, length, levels, k) ==
    IF k >= levels THEN Zero
    ELSE LET lo == Add(y_min, Mul(Num(k), band))
             hi == Add(lo, band)
             fraction == R(BandCount(y, lo, hi, k = levels - 1), Len(y))
         IN  Add(Mul(Mul(fraction, length), lo),
                 BandSum(y, y_min, band, length, levels, k + 1))

\* C12: the Lebesgue handler's result is the sum, over exactly `levels` equal
\* bands of the sampled range [y_min, y_max], of (the fraction of the domain
\* samples whose value lies in the band) * (end - start) * (the band's lower
\* level value).
C12_LebesgueBands ==
    (/\ req.op = "lebesgue_integral"
     /\ Returned
     /\ WellFormed(req.function)
     /\ req.levels > 0) =>
        LET x == linspace(req.start, req.end, LebesguePoints)
            y == [i \in 1..LebesguePoints |-> np_eval(req.function, x[i])]
            y_min == MinRange(y, 1, LebesguePoints)
            y_max == MaxRange(y, 1, LebesguePoints)
            band == Div(Sub(y_max, y_min), Num(req.levels))
        IN  /\ HasPayload
            /\ ret.d.result = BandSum(y, y_min, band, Sub(req.end, req.start),
                                      req.levels, 0)

-----------------------------------------------------------------------------
\* W_i: the sum of the increments before step i (from 1) of one path
RECURSIVE PriorSum(_, _)
PriorSum(row, i) == IF i <= 1 THEN Zero ELSE Add(PriorSum(row, i - 1), row[i - 1])

\* the sum over the steps 1 .. i of f(t, W) * dW with t the left end point of
\* the step and W the sum of the increments before it
RECURSIVE LeftPointSum(_, _, _, _, _)
LeftPointSum(function, start_time, dt, row, i) ==
    IF i <= 0 THEN Zero
    ELSE Add(LeftPointSum(function, start_time, dt, row, i - 1),
             Mul(ito_eval(function, Add(start_time, Mul(Num(i - 1), dt)),
                          PriorSum(row, i)),
                 row[i]))

\* the sum over the steps 1 .. i of the expression at the left end point
RECURSIVE LeftTimeSum(_, _, _, _)
LeftTimeSum(expression, a, dt, i) ==
    IF i <= 0 THEN Zero
    ELSE Add(LeftTimeSum(expression, a, dt, i - 1),
             subs(expression, Add(a, Mul(Num(i - 1), dt))))

\* C13: in the Ito reducer the integrand of step i is taken at the left end
\* point t_i = start_time + i * dt and at W_i, the sum of the increments
\* before step i (W_0 = 0), and multiplies dW_i: the value at step i depends
\* neither on dW_i nor on a later increment.  The reported mean is the mean
\* over the paths of these sums; the core reducer sums the expression at the
\* left end points times its fixed increment sqrt(dt).
C13_LeftEndpoint ==
    /\ (req.op = "ito_integral" /\ HasPayload /\ req.paths > 0) =>
        LET dt == Div(Sub(req.end_time, req.start_time), Num(req.steps))
        IN  ret.d.mean =
                np_mean([p \in 1..req.paths |->
                            LeftPointSum(req.function, req.start_time, dt,
                                         drawn[p], req.steps)])
    /\ (req.op = "ito_integral_core" /\ Returned /\ ret.d.prefix = "" /\ req.n > 0) =>
        LET dt == Div(Sub(req.b, req.a), Num(req.n))
        IN  /\ ret.d.body.coef = LeftTimeSum(req.expression, req.a, dt, req.n)
            /\ ret.d.body.root_of = dt

\* an Ito call on the integrand w whose first path has two non-zero increments
C13_Witness ==
    /\ req.op = "ito_integral"
    /\ HasPayload
    /\ req.function = "w"
    /\ req.paths >= 1
    /\ req.steps >= 2
    /\ drawn[1][1] # Zero
    /\ drawn[1][2] # Zero
    /\ IsFinite(ret.d.mean)
    /\ ret.d.mean # Zero

-----------------------------------------------------------------------------
\* a partition of [lo, hi] into n subintervals, or the n nodes inside them
Partition(pts, lo, hi, n) == [pts |-> pts, lo |-> lo, hi |-> hi, n |-> n]

\* the partitions a call builds once its arguments have passed the steps
\* before: the parse of the expression and the division by the count
PartitionsOf(r) ==
    CASE r.op = "riemann_integral" /\ WellFormed(r.function) ->
             {Partition(linspace(r.start, r.end, RiemannPoints),
                        r.start, r.end, RiemannPoints - 1)}
      [] r.op = "lebesgue_integral" /\ WellFormed(r.function) ->
             {Partition(linspace(r.start, r.end, LebesguePoints),
                        r.start, r.end, LebesguePoints - 1)}
      [] r.op = "darboux_integral" /\ WellFormed(r.function) /\ r.partitions > 0 ->
             {Partition(linspace(r.start, r.end, r.partitions + 1),
                        r.start, r.end, r.partitions)}
      [] r.op = "riemann_stieltjes" /\ WellFormed(r.function)
            /\ WellFormed(r.integrator) /\ r.partitions > 0 ->
             {Partition(linspace(r.start, r.end, r.partitions + 1),
                        r.start, r.end, r.partitions)}
      [] r.op = "ito_integral" /\ r.steps > 0 ->
             {Partition(linspace(r.start_time, r.end_time, r.steps + 1),
                        r.start_time, r.end_time, r.steps)}
      [] r.op = "riemann_sum" /\ WellFormed(r.expression) /\ r.n > 0 ->
             LET dx == Div(Sub(r.b, r.a), Num(r.n))
             IN  CASE r.method = "left" ->
                          {Partition(points(r.a, dx, 0, r.n), r.a, r.b, r.n)}
                   [] r.method = "right" ->
                          {Partition(points(r.a, dx, 1, r.n + 1), r.a, r.b, r.n)}
                   [] r.method = "midpoint" ->
                          {Partition(mid_points(r.a, dx, r.n), r.a, r.b, r.n)}
                   [] r.method = "trapezoid" ->
                          {Partition(points(r.a, dx, 0, r.n + 1), r.a, r.b, r.n)}
                   [] OTHER -> {}
      [] r.op \in {"darboux_sum", "lebesgue_integral_core", "ito_integral_core"}
            /\ WellFormed(r.expression) /\ r.n > 0 ->
             {Partition(points(r.a, Div(Sub(r.b, r.a), Num(r.n)), 0, r.n),
                        r.a, r.b, r.n)}
      [] r.op = "numerical_integration_methods" /\ r.method = "trapezoid"
            /\ r.points > 1 ->
             {Partition(linspace(r.lower_bound, r.upper_bound, r.points),
                        r.lower_bound, r.upper_bound, r.points - 1)}
      [] r.op = "numerical_integration_methods" /\ r.method = "midpoint"
            /\ r.points > 0 ->
             LET half == Mul(Div(Sub(r.upper_bound, r.lower_bound), Num(r.points)),
                             R(1, 2))
             IN  {Partition(linspace(Add(r.lower_bound, half),
                                     Sub(r.upper_bound, half), r.points),
                            r.lower_bound, r.upper_bound, r.points)}
      [] OTHER -> {}

\* any two consecutive points differ by exactly (hi - lo) / n
UniformSpacing(P) ==
    \A k \in 1..(Len(P.pts) - 1) :
        Sub(P.pts[k + 1], P.pts[k]) = Div(Sub(P.hi, P.lo), Num(P.n))

Ascending(P) == \A k \in 1..(Len(P.pts) - 1) : Lt(P.pts[k], P.pts[k + 1])
Descending(P) == \A k \in 1..(Len(P.pts) - 1) : Lt(P.pts[k + 1], P.pts[k])

-----------------------------------------------------------------------------
\* the operations that integrate over an interval
IntervalOps ==
    {"riemann_integral", "darboux_integral", "riemann_stieltjes", "lebesgue_integral",
     "ito_integral", "riemann_sum", "darboux_sum", "riemann_stieltjes_sum",
     "lebesgue_integral_core", "ito_integral_core", "definite_integral",
     "numerical_integration_methods"}

\* the two ends of the interval of a call
EndsOf(r) ==
    CASE r.op \in {"riemann_integral", "darboux_integral", "riemann_stieltjes",
                   "lebesgue_integral"} -> <<r.start, r.end>>
      [] r.op = "ito_integral" -> <<r.start_time, r.end_time>>
      [] r.op \in {"definite_integral", "numerical_integration_methods"} ->
             <<r.lower_bound, r.upper_bound>>
      [] OTHER -> <<r.a, r.b>>

\* the expressions of a call
ExprsOf(r) ==
    CASE r.op \in {"riemann_integral", "darboux_integral", "lebesgue_integral",
                   "ito_integral", "definite_integral",
                   "numerical_integration_methods"} -> {r.function}
      [] r.op = "riemann_stieltjes" -> {r.function, r.integrator}
      [] r.op = "riemann_stieltjes_sum" -> {r.expression, r.integrator}
      [] OTHER -> {r.expression}

\* an expression that is well formed and has a value at the point p
DefinedAt(e, p) == WellFormed(e) /\ ~(e = "1/x" /\ p.n = 0)

\* the value a finished call reports is 0
ZeroValue ==
    CASE req.op = "darboux_integral" ->
             /\ HasPayload
             /\ ret.d.upper_sum = Zero
             /\ ret.d.lower_sum = Zero
             /\ ret.d.integral_value = Zero
      [] req.op = "ito_integral" -> HasPayload /\ ret.d.mean = Zero
      [] req.op = "ito_integral_core" ->
             /\ ret.d.prefix = ""
             /\ IsFinite(ret.d.body.coef)
             /\ ret.d.body.coef = Zero \/ ret.d.body.root_of = Zero
      [] ret.kind = "dict" -> HasPayload /\ ret.d.result = Zero
      [] ret.kind = "str" -> ret.d.prefix = "" /\ ret.d.body = Zero
      [] ret.kind = "float" -> ret.d = Zero
      [] OTHER -> FALSE

\* C15: on a degenerate interval (start = end), with every subdivision count
\* above 0 and an integrand defined at that point, every reducer accepts the
\* request (no error result) and returns the value 0.
C15_DegenerateIsZero ==
    (/\ Returned
     /\ req.op \in IntervalOps
     /\ EndsOf(req)[1] = EndsOf(req)[2]
     /\ \A c \in CountsOf(req) : c > 0
     /\ ValidSelector(req)
     /\ \A e \in ExprsOf(req) : DefinedAt(e, EndsOf(req)[1]))
    => (~ErrorResult /\ ZeroValue)

-----------------------------------------------------------------------------
\* A handler has no await in its body: once started it runs to its return, so
\* the interleavings of concurrent requests are the orders in which their
\* handlers run, which are the behaviours of Spec.  rng is the one piece of
\* state a handler touches that is still there after the call.

\* C16: no computation reads or writes state that outlives its own call: no
\* step of any request changes the state the next request will find, so that
\* each request sees the state, and returns the result, it would alone.
C16_NoSharedState == [][rng' = rng]_vars

-----------------------------------------------------------------------------
\* v is a number less than tol away from ref
Near(v, ref, tol) == IsFinite(v) /\ Lt(AbsVal(Sub(v, ref)), tol)

\* one unit of the fifth decimal place, and the tolerance of the handler tests
FifthPlace == R(1, 100000)
TestTolerance == R(1, 1000000)

\* a finished riemann_sum call on x**2 over [0, 1]
SquareSumCall ==
    /\ req.op = "riemann_sum"
    /\ Returned
    /\ req.expression = "x**2"
    /\ req.a = Num(0)
    /\ req.b = Num(1)
    /\ req.method \in RuleMethods

C18_ConvergenceOrder ==
    (SquareSumCall /\ req.n >= 1) =>
        /\ ret.d.prefix = ""
        /\ IsFinite(ret.d.body)
        /\ LET err == AbsVal(Sub(ret.d.body, R(1, 3)))
           IN  IF req.method \in {"left", "right"}
               THEN Le(err, R(1, req.n))
               ELSE Le(err, R(1, req.n * req.n))

\* a midpoint sum over at least two subintervals that is not yet 1/3
C18_Witness ==
    /\ SquareSumCall
    /\ req.n >= 2
    /\ req.method = "midpoint"
    /\ ret.d.prefix = ""
    /\ IsFinite(ret.d.body)
    /\ ret.d.body # R(1, 3)

-----------------------------------------------------------------------------
\* a finished _handle_riemann call on x**2 over [0, 1]; the default method is
\* "trapezoid"
SquareMeshCall ==
    /\ req.op = "riemann_integral"
    /\ Returned
    /\ req.function = "x**2"
    /\ req.start = Num(0)
    /\ req.end = Num(1)
    /\ req.method \in RuleMethods

-----------------------------------------------------------------------------
\* a finished _handle_riemann_stieltjes call with f = x, g = x**2 on [0, 1]
\* and the default number of partitions
SquareIntegratorCall ==
    /\ req.op = "riemann_stieltjes"
    /\ Returned
    /\ req.function = "x"
    /\ req.integrator = "x**2"
    /\ req.start = Num(0)
    /\ req.end = Num(1)
    /\ req.partitions = DefaultPartitions

-----------------------------------------------------------------------------
\* a finished regression call whose two lists differ in length
LengthMismatch ==
    /\ req.op = "linear_regression"
    /\ Returned
    /\ Len(req.x_values) # Len(req.y_values)

\* C21: a linear_regression call with x_values and y_values of different
\* lengths is answered with an error result, a map with the key "error", and
\* no exception leaves the tool.
C21_LengthMismatchReported ==
    LengthMismatch => (ret.kind # "raise" /\ ErrorResult)

-----------------------------------------------------------------------------
\* the integrands of the model that are non-decreasing on [a, b]
NonDecreasingOn(e, a, b) == e \in {"x", "1"} \/ (e = "x**2" /\ Le(Zero, a))

\* a finished darboux_sum call on a proper interval with a positive count
MonotoneDarbouxCall ==
    /\ req.op = "darboux_sum"
    /\ Returned
    /\ req.type \in {"upper", "lower"}
    /\ Lt(req.a, req.b)
    /\ req.n > 0
    /\ NonDecreasingOn(req.expression, req.a, req.b)

\* what riemann_sum returns for the arguments of the call r, by the method m
RiemannSumOf(r, m) == riemann_sum(r.expression, r.a, r.b, r.n, m).value

\* C22: for an integrand that is non-decreasing on [a, b], a < b, and any
\* n > 0, darboux_sum with type "upper" returns what riemann_sum with method
\* "right" returns for the same a, b and n, and darboux_sum with type "lower"
\* returns what riemann_sum with method "left" returns.
C22_DarbouxIsEndpointRule ==
    MonotoneDarbouxCall =>
        ret.d = RiemannSumOf(req, IF req.type = "upper" THEN "right" ELSE "left")

\* an upper sum of x**2 over several subintervals of [0, 1], which is the
\* right sum and not the left one
C22_Witness ==
    /\ MonotoneDarbouxCall
    /\ req.expression = "x**2"
    /\ req.n >= 2
    /\ req.type = "upper"
    /\ ret.d.prefix = ""
    /\ ret.d = RiemannSumOf(req, "right")
    /\ ret.d # RiemannSumOf(req, "left")

-----------------------------------------------------------------------------
\* the values of the integrand at the 1000 domain samples of the call r
SampleValues(r) ==
    LET y_values == lambdify(r.function, linspace(r.start, r.end, LebesguePoints))
    IN  IF y_values.scalar THEN [j \in 1..LebesguePoints |-> y_values.v]
        ELSE y_values.a

\* the level values of the call r
LevelValues(r) ==
    LET y == SampleValues(r)
    IN  linspace(MinRange(y, 1, LebesguePoints), MaxRange(y, 1, LebesguePoints), r.levels)

\* the bands (from 1) of the handler's loop whose mask holds the value v
BandsHolding(r, v) ==
    LET level_values == LevelValues(r)
    IN  {i \in 1..(r.levels - 1) : mask_count(Sca(v), level_values[i], level_values[i + 1]) = 1}

\* the number of samples the masks of all the bands count together
CountedSamples(r) ==
    LET level_values == LevelValues(r)
        y_values == Arr(SampleValues(r))
    IN  SumRange([i \in 1..(r.levels - 1) |->
                    Num(mask_count(y_values, level_values[i], level_values[i + 1]))],
                 1, r.levels - 1)

\* C23: in _handle_lebesgue with levels >= 2 each of the 1000 domain samples
\* is counted in exactly one band, so the bands together count all 1000
\* samples and none, in particular none whose value is y_max, is left out.
C23_EverySampleInOneBand ==
    (req.op = "lebesgue_integral" /\ HasPayload /\ req.levels >= 2) =>
        /\ \A j \in 1..LebesguePoints :
              Cardinality(BandsHolding(req, SampleValues(req)[j])) = 1
        /\ CountedSamples(req) = Num(LebesguePoints)

-----------------------------------------------------------------------------
\* the trapezoid sum of the integrand f over the n equal subintervals of
\* [start, end]: the sum of dx * (y_i + y_{i+1}) / 2
TrapezoidSum(f, start, end, n) ==
    LET dx == Div(Sub(end, start), Num(n))
        y == [k \in 1..(n + 1) |-> np_eval(f, Add(start, Mul(Num(k - 1), dx)))]
    IN  SumRange([k \in 1..n |-> Mul(Mul(dx, Add(y[k], y[k + 1])), R(1, 2))], 1, n)

\* a finished Darboux call for a well-formed integrand and partitions > 0
DarbouxCall ==
    /\ req.op = "darboux_integral"
    /\ Returned
    /\ WellFormed(req.function)
    /\ req.partitions > 0

\* C24: for every integrand, interval and partitions > 0, the integral_value
\* _handle_darboux returns is the trapezoid sum over the same partition, the
\* sum over the subintervals of dx * (y_i + y_{i+1}) / 2.
C24_MidValueIsTrapezoid ==
    DarbouxCall =>
        /\ HasPayload
        /\ ret.d.integral_value =
               TrapezoidSum(req.function, req.start, req.end, req.partitions)

\* the same for the calls that return a value: the integrand is not a constant
C24_ValueIsTrapezoid ==
    (DarbouxCall /\ HasPayload) =>
        ret.d.integral_value =
            TrapezoidSum(req.function, req.start, req.end, req.partitions)

-----------------------------------------------------------------------------
\* a finished riemann_sum call by the trapezoid method with n > 0
TrapezoidCall ==
    /\ req.op = "riemann_sum"
    /\ Returned
    /\ WellFormed(req.expression)
    /\ req.n > 0
    /\ req.method = "trapezoid"

\* the arithmetic mean of what riemann_sum returns by "left" and by "right"
MeanOfLeftAndRight(r) ==
    Mul(Add(RiemannSumOf(r, "left").body, RiemannSumOf(r, "right").body), R(1, 2))

\* C25: for every integrand, a, b and n > 0, riemann_sum with method
\* "trapezoid" returns the arithmetic mean of what it returns with "left" and
\* with "right".
C25_TrapezoidIsMean ==
    TrapezoidCall =>
        /\ ret.d.prefix = ""
        /\ ret.d.body = MeanOfLeftAndRight(req)

\* the same where the integrand has a value at every point of the partition
C25_FiniteTrapezoidIsMean ==
    (TrapezoidCall /\ IsFinite(RiemannSumOf(req, "left").body)
                   /\ IsFinite(RiemannSumOf(req, "right").body)) =>
        /\ ret.d.prefix = ""
        /\ ret.d.body = MeanOfLeftAndRight(req)

-----------------------------------------------------------------------------
\* a finished call of integrate or limit, direct or through the route, for a
\* well-formed expression and the name of a variable
SymbolicCall ==
    /\ req.op \in {"integrate", "limit", "symbolic_integral"}
    /\ Returned
    /\ WellFormed(req.expression)
    /\ req.variable.type = "str"

\* the string a finished symbolic call hands back
ReturnedString == IF ret.kind = "dict" THEN ret.d.result ELSE ret.d

\* C26: for a well-formed expression and variable name the wrappers integrate
\* and limit call the computer-algebra routine exactly once and return its
\* result as a string: the wrapper is entered once only, it never calls
\* itself, and the string never starts with "Error:".
C26_WrapperCallsRoutineOnce ==
    SymbolicCall =>
        /\ calls.cas = 1
        /\ calls.wrapper = 1
        /\ ReturnedString.prefix # "Error: "

\* what every such call does: the wrapper is entered twice, sympy's routine
\* is never called and the string returned is an error
C26_WrapperCallsItself ==
    SymbolicCall =>
        /\ calls.cas = 0
        /\ calls.wrapper = 2
        /\ ReturnedString.prefix = "Error: "

-----------------------------------------------------------------------------
\* what holds in every state of the process: the flag is set exactly when a
\* signal has been delivered, the handler has raised once if so and never
\* otherwise, and a return of main has the code of the way server.run ended
ShutdownState ==
    /\ shutdown_requested <=> Len(signals) >= 1
    /\ raised = IF Len(signals) >= 1 THEN 1 ELSE 0
    /\ (pc = "returned" /\ run_outcome = "KeyboardInterrupt") => exit = <<0>>
    /\ (pc = "returned" /\ run_outcome = "Exception") => exit = <<1>>

\* what holds of every step: the flag never goes back to false, the handler
\* raises on the first signal only, and main's own step out of either except
\* clause of server.run returns the code of that clause
ShutdownStep ==
    /\ shutdown_requested => shutdown_requested'
    /\ raised' # raised => (signals = <<>> /\ Len(signals') = 1 /\ raised' = 1)
    /\ (pc = "stopping" /\ pc' # pc) => (pc' = "returned" /\ exit' = <<0>>)
    /\ (pc = "failing" /\ signals' = signals /\ pc' # pc) =>
           (pc' = "returned" /\ exit' = <<1>>)

====
